---- MODULE Spec2Model ----
(***************************************************************************)
(* The "clear conversation" mutation of the chat front end                 *)
(* (frontend/src/hooks/mutation/use-clear-conversation.ts): a new          *)
(* conversation is started from the sandbox of the active one, the start   *)
(* task is polled until it is READY or ERROR or the attempt budget is      *)
(* used up, and on success the user is moved to the new conversation and   *)
(* the old one is deleted in the background.                               *)
(*                                                                         *)
(* The mutation function is an async function: one action of the model is  *)
(* one run of it between two awaits, from the settling of the awaited      *)
(* promise to the next await (or to its return or throw).                  *)
(***************************************************************************)
EXTENDS Integers, Sequences, FiniteSets, TLC

\* ---------------------------------------------------------------- values

\* JavaScript null / undefined (both falsy, both skipped by ?. and ||).
null == "<null>"

\* const maxAttempts = 60
maxAttempts == 60

\* The invocations of mutate() that are followed.
Ops == {1, 2}

\* StartTask.status: the two terminal values and one working value.
Statuses == {"WORKING", "READY", "ERROR"}

\* ["READY", "ERROR"] of the loop condition.
TerminalStatuses == {"READY", "ERROR"}

Details == {null, "", "Sandbox crashed"}

AppConversationIds == {null, "", "new-conv-999"}

\* The tasks getStartTask can answer with.
StartTasks == [status : Statuses, detail : Details,
               app_conversation_id : AppConversationIds]

\* getStartTask answering null (and the value of `task` before line 42).
NullTask == [status |-> null, detail |-> null, app_conversation_id |-> null]

TaskIds == {"task-789", "task-790"}

\* What a rejected createConversation / getStartTask call throws.
TransportErrors == {"Network Error", "Request failed with status code 500"}

\* useActiveConversation().data when there is no active conversation.
NoConversation == [conversation_id |-> null, sandbox_id |-> null]

Conversations == {NoConversation} \cup
                 [conversation_id : {"", "conv-123"},
                  sandbox_id : {null, "", "sandbox-456"}]

NoActiveConversationMessage == "No active conversation or sandbox"

DefaultFailureMessage == "Failed to create new conversation in sandbox"

\* GitRepository values the repository dropdown offers (by full_name).
Repositories == {"octo/app", "octo/lib"}

BranchNames == {"main"}

\* selectedBranch === null
NoBranch == [repository |-> null, name |-> null]

\* The Branch values the branch dropdown offers for repository r
\* (repository={selectedRepository?.full_name || null}).
BranchesOf(r) == {[repository |-> r, name |-> n] : n \in BranchNames}

\* The conversation ids the service is called with.
ServiceConversationIds == {"abc123", "conv-123", "xyz789"}

\* The data a clear / fork response can carry.
ServiceResponses ==
    [message : {"Conversation history cleared. Runtime state preserved.",
                "Conversation forked. Runtime state preserved."},
     new_conversation_id : {null, "", "def456"},
     parent_conversation_id : {null, "", "abc123"},
     status : {"running"}]

\* No response data (yet).
NoResponse == [message |-> null, new_conversation_id |-> null,
               parent_conversation_id |-> null, status |-> null]

MissingFieldsMessage == "Invalid response from server: missing required fields"

\* The launches and the onClose calls that are followed.
MaxLaunches == 2

MaxOnClose == 2

\* useUnifiedWebSocketStatus(): the value the code tests for, and another.
WebSocketStatuses == {"CONNECTED", "DISCONNECTED"}

\* useParams().conversationId of GitControlBar (undefined off a
\* conversation route).
RouteConversationIds == {null, "conv-123"}

\* The repositories the dropdown of ChangeRepositoryModal can hand to
\* handleRepositoryChange: main_branch is optional.
SelectedRepos ==
    { [full_name |-> "octo/app", main_branch |-> "main",
       git_provider |-> "github"],
      [full_name |-> "octo/lib", main_branch |-> null,
       git_provider |-> "gitlab"] }

\* selectedRepository === null in ChangeRepositoryModal
NoSelectedRepo ==
    [full_name |-> null, main_branch |-> null, git_provider |-> null]

\* The currentRepository and currentProvider props.
CurrentRepositories == {null, "octo/app"}

CurrentProviders == {null, "gitlab"}

\* The update requests of ChangeRepositoryModal that are followed.
MaxChangeUpdates == 2

\* What the mutation function of the single-call hook can throw: an
\* Error, a string, or something else.
SingleThrown ==
    [kind : {"Error"}, message : TransportErrors \cup {MissingFieldsMessage}]
    \cup {[kind |-> "string", message |-> "cancelled"],
          [kind |-> "other", message |-> null]}

\* Nothing thrown (yet).
NoThrown == [kind |-> null, message |-> null]

\* The mutate() calls of the single-call hook that are followed.
MaxSingleCalls == 2

\* useActiveConversation().data of a conversation that is loaded.
LoadedConversation ==
    [conversation_id |-> "conv-123", sandbox_id |-> "sandbox-456"]

\* ------------------------------------------------------- pure functions

\* JavaScript truthiness of a string-or-null value.
Truthy(v) == v # null /\ v # ""

\* As PreconditionFails, with the sandbox_id test left out.
PreconditionFails_NoSandboxTest(c) ==
    ~Truthy(c.conversation_id)

\* !conversation?.conversation_id || !conversation.sandbox_id
PreconditionFails(c) ==
    ~Truthy(c.conversation_id) \/ ~Truthy(c.sandbox_id)

\* As LoopCondition, with READY not in the list of final statuses.
LoopCondition_ErrorOnly(t, a) ==
    /\ t # NullTask
    /\ t.status # "ERROR"
    /\ a < maxAttempts

\* As LoopCondition, with ERROR not in the list of final statuses.
LoopCondition_ReadyOnly(t, a) ==
    /\ t # NullTask
    /\ t.status # "READY"
    /\ a < maxAttempts

\* As LoopCondition, with no limit on the attempts.
LoopCondition_NoBudget(t, a) ==
    /\ t # NullTask
    /\ t.status \notin {"READY", "ERROR"}

\* As LoopCondition, with attempts <= maxAttempts.
LoopCondition_Inclusive(t, a) ==
    /\ t # NullTask
    /\ t.status \notin {"READY", "ERROR"}
    /\ a <= maxAttempts

\* task && !["READY", "ERROR"].includes(task.status) && attempts < maxAttempts
LoopCondition(t, a) ==
    /\ t # NullTask
    /\ t.status \notin TerminalStatuses
    /\ a < maxAttempts

\* As TaskFailed, with the app_conversation_id test left out.
TaskFailed_NoIdTest(t) ==
    \/ t = NullTask
    \/ t.status # "READY"

\* !task || task.status !== "READY" || !task.app_conversation_id
TaskFailed(t) ==
    \/ t = NullTask
    \/ t.status # "READY"
    \/ ~Truthy(t.app_conversation_id)

\* As FailureMessage, with ?? in the place of ||.
FailureMessage_Nullish(t) ==
    IF t.detail # null THEN t.detail
    ELSE "Failed to create new conversation in sandbox"

\* As FailureMessage, with the detail used for an ERROR task only.
FailureMessage_ErrorOnly(t) ==
    IF t.status = "ERROR" /\ t.detail # null /\ t.detail # ""
      THEN t.detail
      ELSE "Failed to create new conversation in sandbox"

\* task?.detail || "Failed to create new conversation in sandbox"
FailureMessage(t) ==
    IF Truthy(t.detail) THEN t.detail ELSE DefaultFailureMessage

\* As CreateConversationArgs, with the id in the first of the nine places.
CreateConversationArgs_FirstPlace(c) ==
    <<c.conversation_id, null, null, null, null, null, null, null, null>>

\* The nine arguments of the createConversation call of lines 29-39:
\* parent_conversation_id is the eighth, the others are undefined.
CreateConversationArgs(c) ==
    <<null, null, null, null, null, null, null, c.conversation_id, null>>

\* `/conversations/${data.newConversationId}`
ConversationPath(id) == <<"/conversations/", id>>

InvalidatedKeys == << <<"user", "conversations">>,
                      <<"v1-batch-get-app-conversations">> >>

\* ----------------------------------------------------------------- state

VARIABLES
    conversation,   \* useActiveConversation().data captured by the hook
    responses,      \* the answers getStartTask can give in this run
    invocable,      \* the invocations the user makes
    pc,             \* where each invocation stands
    status,         \* the mutation's status: idle, pending, success, error
    startTask,      \* id of the task createConversation returned
    task,           \* let task
    attempts,       \* let attempts
    error,          \* message of the Error the mutation function threw
    data,           \* what the mutation function returned
    inflight,       \* getStartTask requests sent and not yet answered
    nFetch,         \* getStartTask calls made
    fetched,        \* the task ids those calls were made with
    nSleep,         \* setTimeout(resolve, 1000) calls made
    nElapsed,       \* of those, the timers that have fired
    thrown,         \* what a createConversation / getStartTask call threw
    firstTerminalAt,\* nFetch when the first READY / ERROR task came back
    created,        \* arguments of each createConversation call
    navigated,      \* navigate() targets
    deleted,        \* deleteUserConversation() arguments
    deleteFailed,   \* deleteUserConversation() rejected
    invalidated,    \* invalidateQueries() keys
    effects,        \* the three kinds of call above, in the order made
    loadingToast,   \* toast "clear-conversation" is displayed
    successToast,   \* displaySuccessToast calls
    errorToast      \* displayErrorToast messages

\* State of OpenRepositoryModal and of the GitControlBar that shows it
\* (frontend/src/components/features/chat/open-repository-modal.tsx).
VARIABLES
    isOpenRepoModalOpen,  \* GitControlBar: useState(false)
    selectedRepository,   \* useState<GitRepository | null>(null)
    selectedBranch,       \* useState<Branch | null>(null)
    launched,             \* the pairs onLaunch was called with
    nOnClose,             \* onClose calls
    lastEvent             \* the handler that ran last

\* State of GitControlBar around handleLaunchRepository.
VARIABLES
    routeConversationId,  \* useParams().conversationId
    webSocketStatus,      \* useUnifiedWebSocketStatus()
    updates,              \* the updateRepository (mutate) calls, in order
    sent,                 \* the clone messages handed to send()
    cloneToasts           \* the launches answered by the disconnected toast

\* State of ChangeRepositoryModal
\* (frontend/src/components/features/chat/change-repository-modal.tsx).
VARIABLES
    changeIsOpen,        \* the isOpen prop
    currentRepository,   \* the currentRepository prop
    currentProvider,     \* the currentProvider prop
    changeSelected,      \* useState<SelectedRepo | null>(null)
    changeUpdates,       \* the updateRepository (mutate) calls, in order
    nChangeOnClose,      \* onClose calls
    changeLastEvent      \* the handler that ran last

\* State of the single-call useClearConversation (unnamed/part_000).
VARIABLES
    singlePc,            \* idle, pending
    singleCalls,         \* the ids clearConversation was called with
    singleData,          \* what the last call resolved with
    singleError,         \* what the last call threw
    singleNavigated,     \* the paths navigate() was called with
    singleSuccessToast,  \* displaySuccessToast messages
    singleErrorToast,    \* displayErrorToast messages
    singleLastEvent      \* the callback that ran last

\* A call of V1ConversationService.clearConversation or .forkConversation.
VARIABLES
    svcPc,           \* idle, posted, returned, threw
    svcKind,         \* "clear" or "fork"
    svcConversationId,
    svcPosted,       \* the URLs openHands.post was called with
    svcData,         \* the data of the response
    svcResult,       \* what the call returned
    svcError         \* message of what the call threw

hookVars == <<conversation, responses, invocable, pc, status, startTask,
              task, attempts, error, data, inflight, nFetch, fetched, nSleep,
              nElapsed, thrown, firstTerminalAt, created, navigated, deleted,
              deleteFailed, invalidated, effects, loadingToast, successToast,
              errorToast>>

modalVars == <<isOpenRepoModalOpen, selectedRepository, selectedBranch,
               launched, nOnClose, lastEvent>>

serviceVars == <<svcPc, svcKind, svcConversationId, svcPosted, svcData,
                 svcResult, svcError>>

barVars == <<routeConversationId, webSocketStatus, updates, sent,
             cloneToasts>>

changeVars == <<changeIsOpen, currentRepository, currentProvider,
                changeSelected, changeUpdates, nChangeOnClose,
                changeLastEvent>>

singleVars == <<singlePc, singleCalls, singleData, singleError,
                singleNavigated, singleSuccessToast, singleErrorToast,
                singleLastEvent>>

\* The state outside the clear-conversation hook.
componentVars == <<modalVars, barVars, serviceVars, changeVars, singleVars>>

\* The state outside GitControlBar and its modal.
pageVars == <<hookVars, serviceVars, changeVars, singleVars>>

notChangeVars == <<hookVars, modalVars, barVars, serviceVars, singleVars>>

notSingleVars == <<hookVars, modalVars, barVars, serviceVars, changeVars>>

notModalVars == <<barVars, pageVars>>

notBarVars == <<modalVars, pageVars>>

notServiceVars == <<hookVars, modalVars, barVars, changeVars, singleVars>>

vars == <<hookVars, componentVars>>

NoData == [newConversationId |-> null, oldConversationId |-> null]

InitWith(ops, answers) ==
    /\ conversation \in Conversations
    /\ responses = answers
    /\ invocable = ops
    /\ pc = [o \in Ops |-> "idle"]
    /\ status = [o \in Ops |-> "idle"]
    /\ startTask = [o \in Ops |-> null]
    /\ task = [o \in Ops |-> NullTask]
    /\ attempts = [o \in Ops |-> 0]
    /\ error = [o \in Ops |-> null]
    /\ data = [o \in Ops |-> NoData]
    /\ inflight = [o \in Ops |-> 0]
    /\ nFetch = [o \in Ops |-> 0]
    /\ fetched = [o \in Ops |-> {}]
    /\ nSleep = [o \in Ops |-> 0]
    /\ nElapsed = [o \in Ops |-> 0]
    /\ thrown = [o \in Ops |-> null]
    /\ firstTerminalAt = [o \in Ops |-> 0]
    /\ created = [o \in Ops |-> <<>>]
    /\ navigated = [o \in Ops |-> <<>>]
    /\ deleted = [o \in Ops |-> <<>>]
    /\ deleteFailed = [o \in Ops |-> FALSE]
    /\ invalidated = [o \in Ops |-> <<>>]
    /\ effects = [o \in Ops |-> <<>>]
    /\ loadingToast = FALSE
    /\ successToast = [o \in Ops |-> 0]
    /\ errorToast = [o \in Ops |-> <<>>]

\* The modal is closed and nothing is selected.
ModalInit ==
    /\ isOpenRepoModalOpen = FALSE
    /\ selectedRepository = null
    /\ selectedBranch = NoBranch
    /\ launched = <<>>
    /\ nOnClose = 0
    /\ lastEvent = "none"

\* No service call has been made.
ServiceInit ==
    /\ svcPc = "idle"
    /\ svcKind = null
    /\ svcConversationId = null
    /\ svcPosted = <<>>
    /\ svcData = NoResponse
    /\ svcResult = NoResponse
    /\ svcError = null

\* GitControlBar has launched nothing; its route and the socket are as
\* given.
BarInit(ids, statuses) ==
    /\ routeConversationId \in ids
    /\ webSocketStatus \in statuses
    /\ updates = <<>>
    /\ sent = <<>>
    /\ cloneToasts = <<>>

\* ChangeRepositoryModal is closed with nothing selected; its props are as
\* given.
ChangeInit(repositories, providers) ==
    /\ changeIsOpen = FALSE
    /\ currentRepository \in repositories
    /\ currentProvider \in providers
    /\ changeSelected = NoSelectedRepo
    /\ changeUpdates = <<>>
    /\ nChangeOnClose = 0
    /\ changeLastEvent = "none"

\* The single-call hook has not been used.
SingleInit ==
    /\ singlePc = "idle"
    /\ singleCalls = <<>>
    /\ singleData = NoResponse
    /\ singleError = NoThrown
    /\ singleNavigated = <<>>
    /\ singleSuccessToast = <<>>
    /\ singleErrorToast = <<>>
    /\ singleLastEvent = "none"

\* The page of conversation conv-123 with its socket connected and no
\* repository attached.
ComponentInit ==
    /\ ModalInit
    /\ BarInit({"conv-123"}, {"CONNECTED"})
    /\ ServiceInit
    /\ ChangeInit({null}, {null})
    /\ SingleInit

\* One invocation of the mutation.
Init == InitWith({1}, StartTasks \cup {NullTask}) /\ ComponentInit

\* --------------------------------------------------------------- actions

\* mutate(): the mutation becomes pending and onMutate shows the loading
\* toast (lines 71-76); the mutation function runs next.
Mutate(o) ==
    /\ o \in invocable
    /\ pc[o] = "idle"
    /\ pc' = [pc EXCEPT ![o] = "mutationFn"]
    /\ status' = [status EXCEPT ![o] = "pending"]
    /\ loadingToast' = TRUE
    /\ UNCHANGED <<conversation, responses, invocable, startTask, task,
                   attempts, error, data, inflight, nFetch, fetched, nSleep,
                   nElapsed, thrown, firstTerminalAt, created, navigated,
                   deleted, deleteFailed, invalidated, effects, successToast,
                   errorToast, componentVars>>

\* As MutationFnStart, with a second invocation refused while another one
\* is still at work on the same conversation.
MutationFnStart_Deduplicated(o) ==
    /\ pc[o] = "mutationFn"
    /\ IF PreconditionFails(conversation)
         THEN /\ error' = [error EXCEPT ![o] = NoActiveConversationMessage]
              /\ pc' = [pc EXCEPT ![o] = "threw"]
              /\ UNCHANGED created
         ELSE IF \E p \in Ops \ {o} : status[p] = "pending" /\ created[p] # <<>>
         THEN /\ error' = [error EXCEPT ![o] = "Clear already in progress"]
              /\ pc' = [pc EXCEPT ![o] = "threw"]
              /\ UNCHANGED created
         ELSE /\ created' = [created EXCEPT
                               ![o] = Append(@, CreateConversationArgs(
                                                     conversation))]
              /\ pc' = [pc EXCEPT ![o] = "awaitCreate"]
              /\ UNCHANGED error
    /\ UNCHANGED <<conversation, responses, invocable, status, startTask,
                   task, attempts, data, inflight, nFetch, fetched, nSleep,
                   nElapsed, thrown, firstTerminalAt, navigated, deleted,
                   deleteFailed, invalidated, effects, loadingToast,
                   successToast, errorToast, componentVars>>

\* Lines 23-39: the precondition, then the createConversation call.
MutationFnStart(o) ==
    /\ pc[o] = "mutationFn"
    /\ IF PreconditionFails(conversation)
         THEN /\ error' = [error EXCEPT ![o] = NoActiveConversationMessage]
              /\ pc' = [pc EXCEPT ![o] = "threw"]
              /\ UNCHANGED created
         ELSE /\ created' = [created EXCEPT
                               ![o] = Append(@, CreateConversationArgs(
                                                     conversation))]
              /\ pc' = [pc EXCEPT ![o] = "awaitCreate"]
              /\ UNCHANGED error
    /\ UNCHANGED <<conversation, responses, invocable, status, startTask,
                   task, attempts, data, inflight, nFetch, fetched, nSleep,
                   nElapsed, thrown, firstTerminalAt, navigated, deleted,
                   deleteFailed, invalidated, effects, loadingToast,
                   successToast, errorToast, componentVars>>

\* Line 29 resolves, with a task no other invocation was given, and line 42
\* sends the first getStartTask.
CreateResolves(o) ==
    /\ pc[o] = "awaitCreate"
    /\ \E id \in TaskIds \ {startTask[p] : p \in Ops \ {o}} :
          /\ startTask' = [startTask EXCEPT ![o] = id]
          /\ fetched' = [fetched EXCEPT ![o] = @ \cup {id}]
    /\ nFetch' = [nFetch EXCEPT ![o] = @ + 1]
    /\ inflight' = [inflight EXCEPT ![o] = @ + 1]
    /\ pc' = [pc EXCEPT ![o] = "awaitFirstFetch"]
    /\ UNCHANGED <<conversation, responses, invocable, status, task, attempts,
                   error, data, nSleep, nElapsed, thrown, firstTerminalAt,
                   created, navigated, deleted, deleteFailed, invalidated,
                   effects, loadingToast, successToast, errorToast,
                   componentVars>>

\* As Rethrow, with the failure caught and reported by the generic message.
Rethrow_Wrapped(o, e) ==
    /\ thrown' = [thrown EXCEPT ![o] = e]
    /\ error' = [error EXCEPT ![o] = DefaultFailureMessage]
    /\ pc' = [pc EXCEPT ![o] = "threw"]

\* A rejected await (line 29, 42 or 56) throws out of the mutation function.
Rethrow(o, e) ==
    /\ thrown' = [thrown EXCEPT ![o] = e]
    /\ error' = [error EXCEPT ![o] = e]
    /\ pc' = [pc EXCEPT ![o] = "threw"]

\* Line 29 rejects.
CreateRejects(o) ==
    /\ pc[o] = "awaitCreate"
    /\ \E e \in TransportErrors : Rethrow(o, e)
    /\ UNCHANGED <<conversation, responses, invocable, status, startTask,
                   task, attempts, data, inflight, nFetch, fetched, nSleep,
                   nElapsed, firstTerminalAt, created, navigated, deleted,
                   deleteFailed, invalidated, effects, loadingToast,
                   successToast, errorToast, componentVars>>

\* Lines 47-69 from the point where `task` holds t and `attempts` holds a:
\* the loop condition, and either the next sleep or the classification of
\* the task into a throw or a return.
Continue(o, t, a) ==
    /\ task' = [task EXCEPT ![o] = t]
    /\ attempts' = [attempts EXCEPT ![o] = a]
    /\ firstTerminalAt' =
         [firstTerminalAt EXCEPT
            ![o] = IF @ = 0 /\ t.status \in TerminalStatuses
                     THEN nFetch[o] ELSE @]
    /\ IF LoopCondition(t, a)
         THEN /\ nSleep' = [nSleep EXCEPT ![o] = @ + 1]
              /\ pc' = [pc EXCEPT ![o] = "sleeping"]
              /\ UNCHANGED <<error, data>>
         ELSE /\ UNCHANGED nSleep
              /\ IF TaskFailed(t)
                   THEN /\ error' = [error EXCEPT ![o] = FailureMessage(t)]
                        /\ pc' = [pc EXCEPT ![o] = "threw"]
                        /\ UNCHANGED data
                   ELSE /\ data' =
                             [data EXCEPT
                                ![o] = [newConversationId |->
                                            t.app_conversation_id,
                                        oldConversationId |->
                                            conversation.conversation_id]]
                        /\ pc' = [pc EXCEPT ![o] = "returned"]
                        /\ UNCHANGED error

\* Line 42 resolves with a task or with null.
FirstFetchResolves(o) ==
    /\ pc[o] = "awaitFirstFetch"
    /\ inflight' = [inflight EXCEPT ![o] = @ - 1]
    /\ \E t \in responses : Continue(o, t, attempts[o])
    /\ UNCHANGED <<conversation, responses, invocable, status, startTask,
                   nFetch, fetched, nElapsed, thrown, created, navigated,
                   deleted, deleteFailed, invalidated, effects, loadingToast,
                   successToast, errorToast, componentVars>>

\* Line 56 resolves; line 57 counts the attempt.
LoopFetchResolves(o) ==
    /\ pc[o] = "awaitLoopFetch"
    /\ inflight' = [inflight EXCEPT ![o] = @ - 1]
    /\ \E t \in responses : Continue(o, t, attempts[o] + 1)
    /\ UNCHANGED <<conversation, responses, invocable, status, startTask,
                   nFetch, fetched, nElapsed, thrown, created, navigated,
                   deleted, deleteFailed, invalidated, effects, loadingToast,
                   successToast, errorToast, componentVars>>

\* Line 42 or line 56 rejects.
FetchRejects(o) ==
    /\ pc[o] \in {"awaitFirstFetch", "awaitLoopFetch"}
    /\ inflight' = [inflight EXCEPT ![o] = @ - 1]
    /\ \E e \in TransportErrors : Rethrow(o, e)
    /\ UNCHANGED <<conversation, responses, invocable, status, startTask,
                   task, attempts, data, nFetch, fetched, nSleep, nElapsed,
                   firstTerminalAt, created, navigated, deleted, deleteFailed,
                   invalidated, effects, loadingToast, successToast,
                   errorToast, componentVars>>

\* As SleepElapses, with the timer repeating every second whether or not
\* the previous getStartTask has been answered.
SleepElapses_Interval(o) ==
    /\ pc[o] \in {"sleeping", "awaitLoopFetch"}
    /\ inflight[o] < 3
    /\ nElapsed' = [nElapsed EXCEPT ![o] = @ + 1]
    /\ nFetch' = [nFetch EXCEPT ![o] = @ + 1]
    /\ fetched' = [fetched EXCEPT ![o] = @ \cup {startTask[o]}]
    /\ inflight' = [inflight EXCEPT ![o] = @ + 1]
    /\ pc' = [pc EXCEPT ![o] = "awaitLoopFetch"]
    /\ UNCHANGED <<conversation, responses, invocable, status, startTask,
                   task, attempts, error, data, nSleep, thrown,
                   firstTerminalAt, created, navigated, deleted, deleteFailed,
                   invalidated, effects, loadingToast, successToast,
                   errorToast, componentVars>>

\* The timer of lines 53-55 fires and line 56 sends the next getStartTask.
SleepElapses(o) ==
    /\ pc[o] = "sleeping"
    /\ nElapsed' = [nElapsed EXCEPT ![o] = @ + 1]
    /\ nFetch' = [nFetch EXCEPT ![o] = @ + 1]
    /\ fetched' = [fetched EXCEPT ![o] = @ \cup {startTask[o]}]
    /\ inflight' = [inflight EXCEPT ![o] = @ + 1]
    /\ pc' = [pc EXCEPT ![o] = "awaitLoopFetch"]
    /\ UNCHANGED <<conversation, responses, invocable, status, startTask,
                   task, attempts, error, data, nSleep, thrown,
                   firstTerminalAt, created, navigated, deleted, deleteFailed,
                   invalidated, effects, loadingToast, successToast,
                   errorToast, componentVars>>

\* As OnSuccess, with the deletion called on the new conversation.
OnSuccess_DeletesNew(o) ==
    /\ pc[o] = "returned"
    /\ loadingToast' = FALSE
    /\ successToast' = [successToast EXCEPT ![o] = @ + 1]
    /\ navigated' = [navigated EXCEPT
                       ![o] = Append(@, ConversationPath(
                                            data[o].newConversationId))]
    /\ deleted' = [deleted EXCEPT ![o] = Append(@, data[o].newConversationId)]
    /\ effects' = [effects EXCEPT ![o] = @ \o <<"navigate", "delete">>]
    /\ status' = [status EXCEPT ![o] = "success"]
    /\ pc' = [pc EXCEPT ![o] = "awaitDelete"]
    /\ UNCHANGED <<conversation, responses, invocable, startTask, task,
                   attempts, error, data, inflight, nFetch, fetched, nSleep,
                   nElapsed, thrown, firstTerminalAt, created, deleteFailed,
                   invalidated, errorToast, componentVars>>

\* onSuccess (lines 77-93) up to the deleteUserConversation call; the
\* mutation is then successful, whatever becomes of the deletion.
OnSuccess(o) ==
    /\ pc[o] = "returned"
    /\ loadingToast' = FALSE
    /\ successToast' = [successToast EXCEPT ![o] = @ + 1]
    /\ navigated' = [navigated EXCEPT
                       ![o] = Append(@, ConversationPath(
                                            data[o].newConversationId))]
    /\ deleted' = [deleted EXCEPT ![o] = Append(@, data[o].oldConversationId)]
    /\ effects' = [effects EXCEPT ![o] = @ \o <<"navigate", "delete">>]
    /\ status' = [status EXCEPT ![o] = "success"]
    /\ pc' = [pc EXCEPT ![o] = "awaitDelete"]
    /\ UNCHANGED <<conversation, responses, invocable, startTask, task,
                   attempts, error, data, inflight, nFetch, fetched, nSleep,
                   nElapsed, thrown, firstTerminalAt, created, deleteFailed,
                   invalidated, errorToast, componentVars>>

\* As DeleteSettles, with no .catch and the promise returned from onSuccess:
\* a rejected deletion then fails the mutation.
DeleteSettles_Uncaught(o, ok) ==
    /\ pc[o] = "awaitDelete"
    /\ deleteFailed' = [deleteFailed EXCEPT ![o] = ~ok]
    /\ invalidated' = [invalidated EXCEPT ![o] = @ \o InvalidatedKeys]
    /\ effects' = [effects EXCEPT ![o] = @ \o <<"invalidate", "invalidate">>]
    /\ pc' = [pc EXCEPT ![o] = IF ok THEN "done" ELSE "failed"]
    /\ status' = [status EXCEPT ![o] = IF ok THEN @ ELSE "error"]
    /\ error' = [error EXCEPT ![o] = IF ok THEN @ ELSE "delete failed"]
    /\ errorToast' = [errorToast EXCEPT
                        ![o] = IF ok THEN @ ELSE Append(@, "delete failed")]
    /\ UNCHANGED <<conversation, responses, invocable, startTask, task,
                   attempts, data, inflight, nFetch, fetched, nSleep,
                   nElapsed, thrown, firstTerminalAt, created, navigated,
                   deleted, loadingToast, successToast, componentVars>>

\* As DeleteSettles, with .then in the place of .finally: the lists are
\* refreshed only when the deletion succeeded.
DeleteSettles_ThenOnly(o, ok) ==
    /\ pc[o] = "awaitDelete"
    /\ deleteFailed' = [deleteFailed EXCEPT ![o] = ~ok]
    /\ invalidated' = [invalidated EXCEPT
                         ![o] = IF ok THEN @ \o InvalidatedKeys ELSE @]
    /\ effects' = [effects EXCEPT
                     ![o] = IF ok THEN @ \o <<"invalidate", "invalidate">>
                            ELSE @]
    /\ pc' = [pc EXCEPT ![o] = "done"]
    /\ UNCHANGED <<conversation, responses, invocable, status, startTask,
                   task, attempts, error, data, inflight, nFetch, fetched,
                   nSleep, nElapsed, thrown, firstTerminalAt, created,
                   navigated, deleted, loadingToast, successToast,
                   errorToast, componentVars>>

\* Lines 84-92: the deletion settles (ok: resolved, ~ok: rejected and
\* caught), then .finally invalidates the two conversation lists.
DeleteSettles(o, ok) ==
    /\ pc[o] = "awaitDelete"
    /\ deleteFailed' = [deleteFailed EXCEPT ![o] = ~ok]
    /\ invalidated' = [invalidated EXCEPT ![o] = @ \o InvalidatedKeys]
    /\ effects' = [effects EXCEPT ![o] = @ \o <<"invalidate", "invalidate">>]
    /\ pc' = [pc EXCEPT ![o] = "done"]
    /\ UNCHANGED <<conversation, responses, invocable, status, startTask,
                   task, attempts, error, data, inflight, nFetch, fetched,
                   nSleep, nElapsed, thrown, firstTerminalAt, created,
                   navigated, deleted, loadingToast, successToast,
                   errorToast, componentVars>>

\* As OnError, with the conversation lists refreshed on failure as well.
OnError_Invalidates(o) ==
    /\ pc[o] = "threw"
    /\ loadingToast' = FALSE
    /\ errorToast' = [errorToast EXCEPT ![o] = Append(@, error[o])]
    /\ invalidated' = [invalidated EXCEPT ![o] = @ \o InvalidatedKeys]
    /\ effects' = [effects EXCEPT ![o] = @ \o <<"invalidate", "invalidate">>]
    /\ status' = [status EXCEPT ![o] = "error"]
    /\ pc' = [pc EXCEPT ![o] = "failed"]
    /\ UNCHANGED <<conversation, responses, invocable, startTask, task,
                   attempts, error, data, inflight, nFetch, fetched, nSleep,
                   nElapsed, thrown, firstTerminalAt, created, navigated,
                   deleted, deleteFailed, successToast, componentVars>>

\* As OnError, with the loading toast left on the screen.
OnError_KeepsToast(o) ==
    /\ pc[o] = "threw"
    /\ errorToast' = [errorToast EXCEPT ![o] = Append(@, error[o])]
    /\ status' = [status EXCEPT ![o] = "error"]
    /\ pc' = [pc EXCEPT ![o] = "failed"]
    /\ UNCHANGED <<conversation, responses, invocable, startTask, task,
                   attempts, error, data, inflight, nFetch, fetched, nSleep,
                   nElapsed, thrown, firstTerminalAt, created, navigated,
                   deleted, deleteFailed, invalidated, effects, loadingToast,
                   successToast, componentVars>>

\* onError (lines 94-105): the Error's message goes into the error toast.
OnError(o) ==
    /\ pc[o] = "threw"
    /\ loadingToast' = FALSE
    /\ errorToast' = [errorToast EXCEPT ![o] = Append(@, error[o])]
    /\ status' = [status EXCEPT ![o] = "error"]
    /\ pc' = [pc EXCEPT ![o] = "failed"]
    /\ UNCHANGED <<conversation, responses, invocable, startTask, task,
                   attempts, error, data, inflight, nFetch, fetched, nSleep,
                   nElapsed, thrown, firstTerminalAt, created, navigated,
                   deleted, deleteFailed, invalidated, effects, successToast,
                   componentVars>>

Next ==
    \E o \in Ops :
        \/ Mutate(o)
        \/ MutationFnStart(o)
        \/ CreateResolves(o)
        \/ CreateRejects(o)
        \/ FirstFetchResolves(o)
        \/ LoopFetchResolves(o)
        \/ FetchRejects(o)
        \/ SleepElapses(o)
        \/ OnSuccess(o)
        \/ \E ok \in BOOLEAN : DeleteSettles(o, ok)
        \/ OnError(o)

Spec == Init /\ [][Next]_vars

\* The answers of the backend when two invocations are followed: the task
\* is working, or it is ready.
OverlapResponses ==
    { [status |-> "WORKING", detail |-> null, app_conversation_id |-> null],
      [status |-> "READY", detail |-> null,
       app_conversation_id |-> "new-conv-999"] }

\* Two invocations of the mutation, one after the other or overlapping:
\* nothing in the hook keeps mutate() from being called while a mutation is
\* pending.
OverlapInit == InitWith(Ops, OverlapResponses) /\ ComponentInit

OverlapSpec == OverlapInit /\ [][Next]_vars

\* Every request is answered or fails, every timer fires and every
\* continuation is run: a step that can be taken is taken.
LiveSpec == Spec /\ WF_vars(Next)

\* ------------------------------------------------- OpenRepositoryModal

\* const isConversationReady = !!conversation && webSocketStatus ===
\* "CONNECTED"
IsConversationReady(c, ws) == c # NoConversation /\ ws = "CONNECTED"

\* The prompt of the clone message, as the pieces of the template string.
ClonePrompt(fullName, branchName) ==
    <<"Clone ", fullName, " and checkout branch ", branchName, ".">>

\* GitControlBar.handleLaunchRepository (lines 50-90) up to the return of
\* updateRepository(): the call records what the success callback closes
\* over, the webSocketStatus of this render among it.
HandleLaunchRepository(repository, branch) ==
    /\ IF ~Truthy(routeConversationId)
         THEN UNCHANGED updates
         ELSE updates' = Append(updates,
                           [launch |-> Len(launched) + 1,
                            conversationId |-> routeConversationId,
                            repository |-> repository,
                            branch |-> branch.name,
                            webSocketStatus |-> webSocketStatus,
                            state |-> "pending"])
    /\ UNCHANGED <<routeConversationId, webSocketStatus, sent, cloneToasts>>

\* GitControlBar (lines 101-104): the "no repository connected" button,
\* disabled while the conversation is not ready.
OpenModal ==
    /\ ~isOpenRepoModalOpen
    /\ IsConversationReady(conversation, webSocketStatus)
    /\ isOpenRepoModalOpen' = TRUE
    /\ lastEvent' = "open"
    /\ UNCHANGED <<selectedRepository, selectedBranch, launched, nOnClose,
                   notModalVars>>

\* As HandleRepositoryChange, with the branch cleared only when the
\* repository is.
HandleRepositoryChange_KeepsBranch(r) ==
    /\ isOpenRepoModalOpen
    /\ selectedRepository' = r
    /\ selectedBranch' = IF r # null THEN selectedBranch ELSE NoBranch
    /\ lastEvent' = "repositoryChange"
    /\ UNCHANGED <<isOpenRepoModalOpen, launched, nOnClose, notModalVars>>

\* handleRepositoryChange (lines 35-43); r = null is the call without a
\* repository.
HandleRepositoryChange(r) ==
    /\ isOpenRepoModalOpen
    /\ IF r # null
         THEN /\ selectedRepository' = r
              /\ selectedBranch' = NoBranch
         ELSE /\ selectedRepository' = null
              /\ selectedBranch' = NoBranch
    /\ lastEvent' = "repositoryChange"
    /\ UNCHANGED <<isOpenRepoModalOpen, launched, nOnClose, notModalVars>>

\* As HandleBranchSelect, with the branch dropdown enabled and offering
\* branches whatever the selection.
HandleBranchSelect_NotDisabled(b) ==
    /\ isOpenRepoModalOpen
    /\ selectedBranch' = b
    /\ lastEvent' = "branchSelect"
    /\ UNCHANGED <<isOpenRepoModalOpen, selectedRepository, launched,
                   nOnClose, notModalVars>>

\* handleBranchSelect (lines 45-47), called by the branch dropdown, which
\* is disabled while no repository is selected (line 94) and offers the
\* branches of the selected one (line 88).
HandleBranchSelect(b) ==
    /\ isOpenRepoModalOpen
    /\ selectedRepository # null
    /\ b \in BranchesOf(selectedRepository) \cup {NoBranch}
    /\ selectedBranch' = b
    /\ lastEvent' = "branchSelect"
    /\ UNCHANGED <<isOpenRepoModalOpen, selectedRepository, launched,
                   nOnClose, notModalVars>>

\* As HandleLaunch, with only the repository tested.
HandleLaunch_RepositoryOnly ==
    /\ isOpenRepoModalOpen
    /\ Len(launched) < MaxLaunches
    /\ lastEvent' = "launch"
    /\ IF selectedRepository = null
         THEN UNCHANGED <<isOpenRepoModalOpen, selectedRepository,
                          selectedBranch, launched, nOnClose, barVars>>
         ELSE /\ launched' =
                    Append(launched, <<selectedRepository, selectedBranch>>)
              /\ HandleLaunchRepository(selectedRepository, selectedBranch)
              /\ selectedRepository' = null
              /\ selectedBranch' = NoBranch
              /\ nOnClose' = nOnClose + 1
              /\ isOpenRepoModalOpen' = FALSE
    /\ UNCHANGED pageVars

\* handleLaunch (lines 49-56); onLaunch is GitControlBar's
\* handleLaunchRepository and onClose its
\* () => setIsOpenRepoModalOpen(false).
HandleLaunch ==
    /\ isOpenRepoModalOpen
    /\ Len(launched) < MaxLaunches
    /\ lastEvent' = "launch"
    /\ IF selectedRepository = null \/ selectedBranch = NoBranch
         THEN UNCHANGED <<isOpenRepoModalOpen, selectedRepository,
                          selectedBranch, launched, nOnClose, barVars>>
         ELSE /\ launched' =
                    Append(launched, <<selectedRepository, selectedBranch>>)
              /\ HandleLaunchRepository(selectedRepository, selectedBranch)
              /\ selectedRepository' = null
              /\ selectedBranch' = NoBranch
              /\ nOnClose' = nOnClose + 1
              /\ isOpenRepoModalOpen' = FALSE
    /\ UNCHANGED pageVars

\* As HandleClose, with onClose alone (the Cancel button wired to the
\* onClose prop).
HandleClose_NoReset ==
    /\ isOpenRepoModalOpen
    /\ nOnClose < MaxOnClose
    /\ nOnClose' = nOnClose + 1
    /\ isOpenRepoModalOpen' = FALSE
    /\ lastEvent' = "close"
    /\ UNCHANGED <<selectedRepository, selectedBranch, launched, notModalVars>>

\* handleClose (lines 58-62): the Cancel button and the backdrop.
HandleClose ==
    /\ isOpenRepoModalOpen
    /\ nOnClose < MaxOnClose
    /\ selectedRepository' = null
    /\ selectedBranch' = NoBranch
    /\ nOnClose' = nOnClose + 1
    /\ isOpenRepoModalOpen' = FALSE
    /\ lastEvent' = "close"
    /\ UNCHANGED <<launched, notModalVars>>

\* The update of call i succeeds. The onSuccess passed to that call
\* (lines 68-87) runs when the call is the latest one of the mutation
\* observer; it tests the webSocketStatus it closed over.
UpdateSucceeds(i) ==
    /\ i \in 1..Len(updates)
    /\ updates[i].state = "pending"
    /\ updates' = [updates EXCEPT ![i].state = "succeeded"]
    /\ IF i # Len(updates)
         THEN UNCHANGED <<sent, cloneToasts>>
         ELSE IF updates[i].webSocketStatus # "CONNECTED"
                THEN /\ cloneToasts' = Append(cloneToasts, i)
                     /\ UNCHANGED sent
                ELSE /\ sent' = Append(sent,
                               [update |-> i,
                                content |-> ClonePrompt(updates[i].repository,
                                                        updates[i].branch)])
                     /\ UNCHANGED cloneToasts
    /\ UNCHANGED <<routeConversationId, webSocketStatus, notBarVars>>

\* As UpdateFails, with the clone message sent all the same.
UpdateFails_Sends(i) ==
    /\ i \in 1..Len(updates)
    /\ updates[i].state = "pending"
    /\ updates' = [updates EXCEPT ![i].state = "failed"]
    /\ sent' = Append(sent,
                  [update |-> i,
                   content |-> ClonePrompt(updates[i].repository,
                                           updates[i].branch)])
    /\ UNCHANGED <<routeConversationId, webSocketStatus, cloneToasts,
                   notBarVars>>

\* The update of call i fails: the call (lines 57-89) passes no onError.
UpdateFails(i) ==
    /\ i \in 1..Len(updates)
    /\ updates[i].state = "pending"
    /\ updates' = [updates EXCEPT ![i].state = "failed"]
    /\ UNCHANGED <<routeConversationId, webSocketStatus, sent, cloneToasts,
                   notBarVars>>

\* The socket of the conversation changes its status (line 32).
WebSocketStatusChanges(ws) ==
    /\ ws # webSocketStatus
    /\ webSocketStatus' = ws
    /\ UNCHANGED <<routeConversationId, updates, sent, cloneToasts,
                   notBarVars>>

ModalNext ==
    \/ OpenModal
    \/ \E r \in Repositories \cup {null} : HandleRepositoryChange(r)
    \/ \E b \in UNION {BranchesOf(r) : r \in Repositories} \cup {NoBranch} :
          HandleBranchSelect(b)
    \/ HandleLaunch
    \/ HandleClose
    \/ \E i \in 1..MaxLaunches : UpdateSucceeds(i)
    \/ \E i \in 1..MaxLaunches : UpdateFails(i)
    \/ \E ws \in WebSocketStatuses : WebSocketStatusChanges(ws)

\* GitControlBar and its modal alone, with no clear operation going on,
\* on any route and with the socket in any status.
ModalSpecInit ==
    /\ InitWith({}, {})
    /\ conversation \in {NoConversation, LoadedConversation}
    /\ ModalInit
    /\ BarInit(RouteConversationIds, WebSocketStatuses)
    /\ ServiceInit
    /\ ChangeInit({null}, {null})
    /\ SingleInit

ModalSpec == ModalSpecInit /\ [][ModalNext]_vars

\* ----------------------------------------------- V1ConversationService

\* The URL of the post: /api/v1/app-conversations/{conversationId}/clear,
\* or .../fork.
ServiceEndpoint(kind, id) ==
    <<"/api/v1/app-conversations/", id,
      IF kind = "clear" THEN "/clear" ELSE "/fork">>

\* As MissingRequiredFields, with new_conversation_id alone required.
MissingRequiredFields_NewOnly(d) ==
    ~Truthy(d.new_conversation_id)

\* The response lacks new_conversation_id or parent_conversation_id.
MissingRequiredFields(d) ==
    ~Truthy(d.new_conversation_id) \/ ~Truthy(d.parent_conversation_id)

\* clearConversation(id) or forkConversation(id) is called and posts.
ServiceCall(kind, id) ==
    /\ svcPc = "idle"
    /\ svcKind' = kind
    /\ svcConversationId' = id
    /\ svcPosted' = Append(svcPosted, ServiceEndpoint(kind, id))
    /\ svcPc' = "posted"
    /\ UNCHANGED <<svcData, svcResult, svcError, notServiceVars>>

\* The post resolves with data d: the call returns d, or throws when a
\* required field is missing.
PostResolves(d) ==
    /\ svcPc = "posted"
    /\ svcData' = d
    /\ IF MissingRequiredFields(d)
         THEN /\ svcError' = MissingFieldsMessage
              /\ svcPc' = "threw"
              /\ UNCHANGED svcResult
         ELSE /\ svcResult' = d
              /\ svcPc' = "returned"
              /\ UNCHANGED svcError
    /\ UNCHANGED <<svcKind, svcConversationId, svcPosted, notServiceVars>>

\* The post rejects: the rejection is the call's.
PostRejects(e) ==
    /\ svcPc = "posted"
    /\ svcError' = e
    /\ svcPc' = "threw"
    /\ UNCHANGED <<svcKind, svcConversationId, svcPosted, svcData, svcResult,
                   notServiceVars>>

ServiceNext ==
    \/ \E kind \in {"clear", "fork"}, id \in ServiceConversationIds :
          ServiceCall(kind, id)
    \/ \E d \in ServiceResponses : PostResolves(d)
    \/ \E e \in TransportErrors : PostRejects(e)

ServiceSpecInit == InitWith({}, {}) /\ ComponentInit

\* One call of the service, with no clear operation or modal at work.
ServiceSpec == ServiceSpecInit /\ [][ServiceNext]_vars

\* ------------------------------------------------ ChangeRepositoryModal

\* JavaScript a || b on string-or-null values.
OrElse(a, b) == IF Truthy(a) THEN a ELSE b

\* const defaultProvider = currentProvider || "github"
DefaultProvider(provider) == OrElse(provider, "github")

\* The variables handleSubmit passes to updateRepository (lines 58-63).
SubmitPayload(cid, sel, provider) ==
    [conversationId |-> cid,
     repository |-> OrElse(sel.full_name, null),
     branch |-> OrElse(sel.main_branch, null),
     gitProvider |-> OrElse(sel.git_provider, DefaultProvider(provider))]

\* The variables handleRemoveRepository passes (lines 77-81).
RemovePayload(cid) ==
    [conversationId |-> cid, repository |-> null, branch |-> null,
     gitProvider |-> null]

\* isPending of useUpdateConversationRepository(): the latest mutate()
\* call of the observer is pending.
IsPending ==
    /\ changeUpdates # <<>>
    /\ changeUpdates[Len(changeUpdates)].state = "pending"

\* const hasRepository = !!currentRepository
HasRepository == Truthy(currentRepository)

\* The parent shows the modal (the isOpen prop becomes true).
ChangeOpen ==
    /\ ~changeIsOpen
    /\ changeIsOpen' = TRUE
    /\ changeLastEvent' = "open"
    /\ UNCHANGED <<currentRepository, currentProvider, changeSelected,
                   changeUpdates, nChangeOnClose, notChangeVars>>

\* handleRepositoryChange (lines 43-53); r = NoSelectedRepo is the call
\* without a repository.
ChangeRepositoryChange(r) ==
    /\ changeIsOpen
    /\ IF r # NoSelectedRepo
         THEN changeSelected' = r
         ELSE changeSelected' = NoSelectedRepo
    /\ changeLastEvent' = "repositoryChange"
    /\ UNCHANGED <<changeIsOpen, currentRepository, currentProvider,
                   changeUpdates, nChangeOnClose, notChangeVars>>

\* As HandleSubmit, with the button disabled only while nothing is
\* selected.
HandleSubmit_EnabledWhilePending ==
    /\ changeIsOpen
    /\ changeSelected # NoSelectedRepo
    /\ Len(changeUpdates) < MaxChangeUpdates
    /\ changeLastEvent' = "submit"
    /\ IF ~Truthy(routeConversationId)
         THEN UNCHANGED changeUpdates
         ELSE changeUpdates' =
                Append(changeUpdates,
                       [by |-> "submit", state |-> "pending",
                        variables |-> SubmitPayload(routeConversationId,
                                                    changeSelected,
                                                    currentProvider)])
    /\ UNCHANGED <<changeIsOpen, currentRepository, currentProvider,
                   changeSelected, nChangeOnClose, notChangeVars>>

\* handleSubmit (lines 55-71), behind the button of line 126
\* (disabled={!selectedRepository || isPending}).
HandleSubmit ==
    /\ changeIsOpen
    /\ ~(changeSelected = NoSelectedRepo \/ IsPending)
    /\ Len(changeUpdates) < MaxChangeUpdates
    /\ changeLastEvent' = "submit"
    /\ IF ~Truthy(routeConversationId)
         THEN UNCHANGED changeUpdates
         ELSE changeUpdates' =
                Append(changeUpdates,
                       [by |-> "submit", state |-> "pending",
                        variables |-> SubmitPayload(routeConversationId,
                                                    changeSelected,
                                                    currentProvider)])
    /\ UNCHANGED <<changeIsOpen, currentRepository, currentProvider,
                   changeSelected, nChangeOnClose, notChangeVars>>

\* handleRemoveRepository (lines 73-89), behind the button of lines
\* 128-135, rendered with a current repository and disabled={isPending}.
HandleRemoveRepository ==
    /\ changeIsOpen
    /\ HasRepository
    /\ ~IsPending
    /\ Len(changeUpdates) < MaxChangeUpdates
    /\ changeLastEvent' = "remove"
    /\ IF ~Truthy(routeConversationId)
         THEN UNCHANGED changeUpdates
         ELSE changeUpdates' =
                Append(changeUpdates,
                       [by |-> "remove", state |-> "pending",
                        variables |-> RemovePayload(routeConversationId)])
    /\ UNCHANGED <<changeIsOpen, currentRepository, currentProvider,
                   changeSelected, nChangeOnClose, notChangeVars>>

\* The Cancel button (lines 136-141): onClose, disabled={isPending}.
ChangeCancel ==
    /\ changeIsOpen
    /\ ~IsPending
    /\ nChangeOnClose < MaxOnClose
    /\ changeIsOpen' = FALSE
    /\ nChangeOnClose' = nChangeOnClose + 1
    /\ changeLastEvent' = "cancel"
    /\ UNCHANGED <<currentRepository, currentProvider, changeSelected,
                   changeUpdates, notChangeVars>>

\* The backdrop (line 99): onClose, whatever isPending is.
ChangeBackdrop ==
    /\ changeIsOpen
    /\ nChangeOnClose < MaxOnClose
    /\ changeIsOpen' = FALSE
    /\ nChangeOnClose' = nChangeOnClose + 1
    /\ changeLastEvent' = "backdrop"
    /\ UNCHANGED <<currentRepository, currentProvider, changeSelected,
                   changeUpdates, notChangeVars>>

\* The update of call i succeeds: the onSuccess passed to the call (lines
\* 65-67 and 83-85) calls onClose when the call is the observer's latest.
ChangeUpdateSucceeds(i) ==
    /\ i \in 1..Len(changeUpdates)
    /\ changeUpdates[i].state = "pending"
    /\ changeUpdates' = [changeUpdates EXCEPT ![i].state = "succeeded"]
    /\ changeLastEvent' = "success"
    /\ IF i = Len(changeUpdates)
         THEN /\ changeIsOpen' = FALSE
              /\ nChangeOnClose' = nChangeOnClose + 1
         ELSE UNCHANGED <<changeIsOpen, nChangeOnClose>>
    /\ UNCHANGED <<currentRepository, currentProvider, changeSelected,
                   notChangeVars>>

\* As ChangeUpdateFails, with the modal closed all the same.
ChangeUpdateFails_Closes(i) ==
    /\ i \in 1..Len(changeUpdates)
    /\ changeUpdates[i].state = "pending"
    /\ changeUpdates' = [changeUpdates EXCEPT ![i].state = "failed"]
    /\ changeLastEvent' = "failure"
    /\ changeIsOpen' = FALSE
    /\ nChangeOnClose' = nChangeOnClose + 1
    /\ UNCHANGED <<currentRepository, currentProvider, changeSelected,
                   notChangeVars>>

\* The update of call i fails: the calls pass no onError.
ChangeUpdateFails(i) ==
    /\ i \in 1..Len(changeUpdates)
    /\ changeUpdates[i].state = "pending"
    /\ changeUpdates' = [changeUpdates EXCEPT ![i].state = "failed"]
    /\ changeLastEvent' = "failure"
    /\ UNCHANGED <<changeIsOpen, currentRepository, currentProvider,
                   changeSelected, nChangeOnClose, notChangeVars>>

ChangeNext ==
    \/ ChangeOpen
    \/ \E r \in SelectedRepos \cup {NoSelectedRepo} : ChangeRepositoryChange(r)
    \/ HandleSubmit
    \/ HandleRemoveRepository
    \/ ChangeCancel
    \/ ChangeBackdrop
    \/ \E i \in 1..MaxChangeUpdates : ChangeUpdateSucceeds(i)
    \/ \E i \in 1..MaxChangeUpdates : ChangeUpdateFails(i)

\* ChangeRepositoryModal alone, on any route and with any props.
ChangeSpecInit ==
    /\ InitWith({}, {})
    /\ conversation = LoadedConversation
    /\ ModalInit
    /\ BarInit(RouteConversationIds, {"CONNECTED"})
    /\ ServiceInit
    /\ ChangeInit(CurrentRepositories, CurrentProviders)
    /\ SingleInit

ChangeSpec == ChangeSpecInit /\ [][ChangeNext]_vars

\* ------------------------------- useClearConversation, single-call variant

\* The message of the error toast of onError (lines 27-35), as the key and
\* the interpolated error.
ClearFailedToast(thrown_) ==
    <<"CONVERSATION$CLEAR_FAILED",
      IF thrown_.kind = "Error" THEN thrown_.message
      ELSE IF thrown_.kind = "string" THEN thrown_.message
      ELSE "CONVERSATION$CLEAR_UNKNOWN_ERROR">>

\* mutate({ conversationId }): mutationFn (lines 16-17) calls
\* clearConversation with the id.
SingleMutate(id) ==
    /\ singlePc = "idle"
    /\ Len(singleCalls) < MaxSingleCalls
    /\ singlePc' = "pending"
    /\ singleCalls' = Append(singleCalls, id)
    /\ singleLastEvent' = "mutate"
    /\ UNCHANGED <<singleData, singleError, singleNavigated, singleSuccessToast, singleErrorToast,
                   notSingleVars>>

\* As SingleResolves, with no test of new_conversation_id.
SingleResolves_NoTest(d) ==
    /\ singlePc = "pending"
    /\ singlePc' = "idle"
    /\ singleLastEvent' = "onSuccess"
    /\ singleData' = d
    /\ singleSuccessToast' = Append(singleSuccessToast, d.message)
    /\ singleNavigated' =
          Append(singleNavigated, ConversationPath(d.new_conversation_id))
    /\ UNCHANGED <<singleCalls, singleError, singleErrorToast, notSingleVars>>

\* clearConversation resolves with d: onSuccess (lines 18-25).
SingleResolves(d) ==
    /\ singlePc = "pending"
    /\ singlePc' = "idle"
    /\ singleLastEvent' = "onSuccess"
    /\ singleData' = d
    /\ IF ~Truthy(d.new_conversation_id)
         THEN /\ singleErrorToast' =
                    Append(singleErrorToast, <<"CONVERSATION$CLEAR_NO_NEW_ID">>)
              /\ UNCHANGED <<singleSuccessToast, singleNavigated>>
         ELSE /\ singleSuccessToast' = Append(singleSuccessToast, d.message)
              /\ singleNavigated' =
                    Append(singleNavigated,
                           ConversationPath(d.new_conversation_id))
              /\ UNCHANGED singleErrorToast
    /\ UNCHANGED <<singleCalls, singleError, notSingleVars>>

\* clearConversation rejects with e: onError (lines 26-36).
SingleRejects(e) ==
    /\ singlePc = "pending"
    /\ singlePc' = "idle"
    /\ singleLastEvent' = "onError"
    /\ singleError' = e
    /\ singleErrorToast' = Append(singleErrorToast, ClearFailedToast(e))
    /\ UNCHANGED <<singleCalls, singleData, singleSuccessToast,
                   singleNavigated, notSingleVars>>

SingleNext ==
    \/ \E id \in ServiceConversationIds : SingleMutate(id)
    \/ \E d \in ServiceResponses : SingleResolves(d)
    \/ \E e \in SingleThrown : SingleRejects(e)

\* The single-call hook alone.
SingleSpecInit ==
    /\ InitWith({}, {})
    /\ conversation = LoadedConversation
    /\ ComponentInit

SingleSpec == SingleSpecInit /\ [][SingleNext]_vars

\* ------------------------------------------------------ state vocabulary

\* The mutation function has returned (the operation resolves).
Resolved(o) == pc[o] \in {"returned", "awaitDelete", "done"}

\* The mutation function has thrown (the operation rejects).
Rejected(o) == pc[o] \in {"threw", "failed"}

\* The last observed task is READY and carries a non-empty id.
ReadyWithId(o) ==
    /\ task[o].status = "READY"
    /\ task[o].app_conversation_id \notin {null, ""}

\* The attempt budget ran out on a task that is still working.
TimedOut(o) ==
    /\ Rejected(o)
    /\ thrown[o] = null
    /\ task[o] # NullTask
    /\ task[o].status \notin {"READY", "ERROR"}

\* ----------------------------------------------------------------- claims

\* C1: once a READY task with a non-empty app_conversation_id has been
\* observed, the operation resolves with that id as newConversationId and
\* no getStartTask call follows the one that observed it.
C1_ReadyResolves ==
    \A o \in Ops :
        ReadyWithId(o) =>
            /\ Resolved(o)
            /\ data[o].newConversationId = task[o].app_conversation_id
            /\ nFetch[o] = firstTerminalAt[o]
            /\ inflight[o] = 0

\* C1 witness: a READY task observed after a working one has resolved.
C1_Witness ==
    \E o \in Ops :
        /\ pc[o] = "returned"
        /\ nFetch[o] = 3
        /\ data[o].newConversationId = "new-conv-999"

\* C2 as stated: an ERROR task rejects with detail ?? default, the detail
\* being used whenever it is not null, the empty string included.
C2_NullishDetail ==
    \A o \in Ops :
        task[o].status = "ERROR" =>
            /\ Rejected(o)
            /\ error[o] = IF task[o].detail # null THEN task[o].detail
                          ELSE DefaultFailureMessage
            /\ nFetch[o] = firstTerminalAt[o]

\* C2 amended: an ERROR task rejects with its detail when the detail is a
\* non-empty string and with the default message when the detail is null or
\* empty; no getStartTask call follows the one that observed the ERROR.
C2_ErrorRejects ==
    \A o \in Ops :
        task[o].status = "ERROR" =>
            /\ Rejected(o)
            /\ error[o] = IF task[o].detail \in {null, ""}
                            THEN DefaultFailureMessage
                            ELSE task[o].detail
            /\ nFetch[o] = firstTerminalAt[o]
            /\ inflight[o] = 0

\* C2 witness: an ERROR task with an empty detail, seen on a re-poll, has
\* rejected the operation.
C2_Witness ==
    \E o \in Ops :
        /\ pc[o] = "failed"
        /\ task[o].status = "ERROR"
        /\ task[o].detail = ""
        /\ nFetch[o] = 2

\* C3 as stated: when every response is a working task, the operation
\* rejects after exactly maxAttempts getStartTask calls.
C3_ExactlyMaxAttemptsFetches ==
    \A o \in Ops :
        (TimedOut(o) /\ firstTerminalAt[o] = 0) => nFetch[o] = maxAttempts

\* C3 amended: when every response is a working task, the operation rejects
\* after exactly maxAttempts + 1 getStartTask calls (the first one and
\* maxAttempts re-polls) and maxAttempts sleeps.
C3_TimeoutFetches ==
    \A o \in Ops :
        (TimedOut(o) /\ firstTerminalAt[o] = 0) =>
            /\ nFetch[o] = maxAttempts + 1
            /\ nSleep[o] = maxAttempts
            /\ nElapsed[o] = maxAttempts

\* C3 witness: the budget ran out on a working task.
C3_Witness ==
    \E o \in Ops :
        /\ pc[o] = "failed"
        /\ task[o].status = "WORKING"
        /\ attempts[o] = maxAttempts

\* C4 as stated: a timeout rejects with the generic message whatever the
\* last working task carries.
C4_TimeoutGenericMessage ==
    \A o \in Ops : TimedOut(o) => error[o] = DefaultFailureMessage

\* C4 amended: a timeout rejects with the detail of the last working task
\* when that detail is a non-empty string, and with the generic message
\* when it is null or empty.
C4_TimeoutMessage ==
    \A o \in Ops :
        TimedOut(o) =>
            error[o] = IF task[o].detail \in {null, ""}
                         THEN DefaultFailureMessage
                         ELSE task[o].detail

\* C4 witness: the budget ran out on a working task that carries a detail.
C4_Witness ==
    \E o \in Ops :
        /\ pc[o] = "failed"
        /\ task[o].status = "WORKING"
        /\ task[o].detail = "Sandbox crashed"
        /\ nFetch[o] > maxAttempts

\* C5: with no active conversation, an empty conversation_id or an empty
\* sandbox_id, the operation rejects with "No active conversation or
\* sandbox" and calls none of createConversation, getStartTask and
\* deleteUserConversation.
C5_PreconditionRejects ==
    \A o \in Ops :
        (/\ \/ conversation = NoConversation
            \/ conversation.conversation_id \in {null, ""}
            \/ conversation.sandbox_id \in {null, ""}
         /\ pc[o] \notin {"idle", "mutationFn"}) =>
            /\ Rejected(o)
            /\ error[o] = "No active conversation or sandbox"
            /\ created[o] = <<>>
            /\ nFetch[o] = 0
            /\ inflight[o] = 0
            /\ deleted[o] = <<>>

\* C5 witness: a conversation with an id and an empty sandbox_id was
\* rejected.
C5_Witness ==
    \E o \in Ops :
        /\ pc[o] = "failed"
        /\ conversation.conversation_id = "conv-123"
        /\ conversation.sandbox_id = ""

\* C6: the operation resolves only on a READY task with a non-empty
\* app_conversation_id; a READY task whose id is null or empty rejects.
C6_ResolvesOnlyReadyWithId ==
    \A o \in Ops :
        /\ Resolved(o) => ReadyWithId(o)
        /\ status[o] = "success" => ReadyWithId(o)
        /\ (task[o].status = "READY" /\ ~ReadyWithId(o)) => Rejected(o)

\* C6 witness: a READY task with an empty id has rejected the operation.
C6_Witness ==
    \E o \in Ops :
        /\ pc[o] = "failed"
        /\ task[o].status = "READY"
        /\ task[o].app_conversation_id = ""

\* C7: a rejected deleteUserConversation leaves the mutation successful,
\* shows no error toast and leaves the navigation to the new conversation
\* done.
C7_DeleteFailureSuppressed ==
    \A o \in Ops :
        deleteFailed[o] =>
            /\ status[o] = "success"
            /\ error[o] = null
            /\ errorToast[o] = <<>>
            /\ navigated[o] =
                 << ConversationPath(task[o].app_conversation_id) >>

\* C7 witness: the deletion has been rejected.
C7_Witness ==
    \E o \in Ops : deleteFailed[o] /\ pc[o] = "done"

\* C8: what createConversation or getStartTask throws is the operation's
\* failure, unchanged, and after the throw there is no getStartTask call,
\* no sleep, no navigation, no deletion and no invalidation.
C8_TransportFailureAborts ==
    [][\A o \in Ops :
         thrown'[o] # null =>
            /\ error'[o] = thrown'[o]
            /\ pc'[o] \in {"threw", "failed"}
            /\ inflight'[o] = 0
            /\ nSleep'[o] = nElapsed'[o]
            /\ navigated'[o] = <<>>
            /\ deleted'[o] = <<>>
            /\ invalidated'[o] = <<>>
            /\ errorToast'[o] \in {<<>>, <<thrown'[o]>>}
            /\ thrown[o] # null =>
                  /\ nFetch'[o] = nFetch[o]
                  /\ nSleep'[o] = nSleep[o]]_vars

\* C8 witness: a re-poll has thrown and the failure was reported.
C8_Witness ==
    \E o \in Ops :
        /\ pc[o] = "failed"
        /\ thrown[o] = "Network Error"
        /\ nFetch[o] = 2

\* C9: at most one getStartTask request of an operation is in flight, and
\* a request is sent only when the previous one has been answered and the
\* sleep that followed it has elapsed.
C9_OnePollInFlight ==
    [][\A o \in Ops :
         /\ inflight'[o] <= 1
         /\ nFetch'[o] # nFetch[o] =>
               /\ nFetch'[o] = nFetch[o] + 1
               /\ inflight[o] = 0
               /\ nSleep[o] = nFetch[o]
               /\ nElapsed'[o] = nFetch[o]]_vars

\* C9 witness: the third request is in flight.
C9_Witness ==
    \E o \in Ops : inflight[o] = 1 /\ nFetch[o] = 3

\* C10: fetches and sleeps alternate, starting with a fetch; when the k-th
\* response is the first READY or ERROR one, there are exactly k fetches
\* and k-1 sleeps, and one createConversation call.
C10_FetchSleepAlternate ==
    \A o \in Ops :
        /\ nFetch[o] = 0 => nSleep[o] = 0
        /\ nFetch[o] > 0 =>
              /\ nElapsed[o] = nFetch[o] - 1
              /\ nSleep[o] \in {nFetch[o] - 1, nFetch[o]}
        /\ firstTerminalAt[o] # 0 =>
              /\ nFetch[o] = firstTerminalAt[o]
              /\ nSleep[o] = firstTerminalAt[o] - 1
              /\ Len(created[o]) = 1

\* C10 witness: the first READY task came back on the second fetch.
C10_Witness ==
    \E o \in Ops :
        /\ firstTerminalAt[o] = 2
        /\ task[o].status = "READY"
        /\ pc[o] = "done"

\* C11: an invocation that passes the precondition calls createConversation
\* once, before any getStartTask call, with the active conversation's id as
\* parent_conversation_id and the eight other arguments undefined; every
\* getStartTask call is made with the id of the task that call returned.
C11_CreateOnceThenPollItsTask ==
    \A o \in Ops :
        /\ (/\ pc[o] \notin {"idle", "mutationFn"}
            /\ conversation.conversation_id \notin {null, ""}
            /\ conversation.sandbox_id \notin {null, ""}) =>
              created[o] = << <<null, null, null, null, null, null, null,
                                conversation.conversation_id, null>> >>
        /\ nFetch[o] > 0 =>
              /\ Len(created[o]) = 1
              /\ startTask[o] \in TaskIds
              /\ fetched[o] = {startTask[o]}
        /\ startTask[o] = null => nFetch[o] = 0

\* C11 witness: the task "task-790" has been polled three times.
C11_Witness ==
    \E o \in Ops :
        /\ startTask[o] = "task-790"
        /\ nFetch[o] = 3
        /\ pc[o] = "done"

\* C12: when the operation fails (precondition, transport failure, ERROR
\* task, READY task without id, null task, timeout) nothing of the success
\* path happens: no navigation, no deleteUserConversation call, no
\* invalidation of a conversation-list key, no success toast.
C12_FailureLeavesUserInPlace ==
    \A o \in Ops :
        (Rejected(o) \/ status[o] = "error" \/ error[o] # null) =>
            /\ navigated[o] = <<>>
            /\ deleted[o] = <<>>
            /\ invalidated[o] = <<>>
            /\ successToast[o] = 0
            /\ status[o] # "success"

\* C12 witness: a timeout has been reported to the user.
C12_Witness ==
    \E o \in Ops :
        /\ pc[o] = "failed"
        /\ status[o] = "error"
        /\ attempts[o] = maxAttempts
        /\ errorToast[o] = << DefaultFailureMessage >>

\* C13: a successful clone navigates once, to /conversations/ followed by
\* the READY task's app_conversation_id, and calls deleteUserConversation
\* once, with the id that was passed as parent_conversation_id.
C13_NavigateNewDeleteOld ==
    \A o \in Ops :
        /\ status[o] = "success" =>
              /\ navigated[o] =
                   << <<"/conversations/", task[o].app_conversation_id>> >>
              /\ task[o].status = "READY"
              /\ Len(created[o]) = 1
              /\ deleted[o] = << created[o][1][8] >>
        /\ status[o] # "success" => (navigated[o] = <<>> /\ deleted[o] = <<>>)

\* C13 witness: the clone of "conv-123" succeeded and its deletion settled.
C13_Witness ==
    \E o \in Ops :
        /\ pc[o] = "done"
        /\ deleted[o] = << "conv-123" >>
        /\ navigated[o] = << <<"/conversations/", "new-conv-999">> >>

\* C14: after a successful clone the keys ["user","conversations"] and
\* ["v1-batch-get-app-conversations"] are eventually invalidated, whether
\* the deletion succeeds or fails; the calls of the success path are made in
\* the order navigate, delete, and, once the deletion has settled, the two
\* invalidations.
C14_InvalidatedAfterDelete ==
    /\ [](\A o \in Ops :
            /\ \/ effects[o] = <<>>
               \/ effects[o] = <<"navigate", "delete">>
               \/ /\ effects[o] =
                       <<"navigate", "delete", "invalidate", "invalidate">>
                  /\ pc[o] = "done"
            /\ invalidated[o] # <<>> =>
                  /\ invalidated[o] = << <<"user", "conversations">>,
                                         <<"v1-batch-get-app-conversations">> >>
                  /\ Len(navigated[o]) = 1
                  /\ Len(deleted[o]) = 1)
    /\ \A o \in Ops :
          (status[o] = "success") ~>
              (invalidated[o] = << <<"user", "conversations">>,
                                   <<"v1-batch-get-app-conversations">> >>)

\* C14 witness: the lists were invalidated after a rejected deletion.
C14_Witness ==
    \E o \in Ops :
        /\ deleteFailed[o]
        /\ Len(invalidated[o]) = 2
        /\ effects[o] = <<"navigate", "delete", "invalidate", "invalidate">>

\* The invocations that passed the precondition and reached line 29.
Started == {o \in Ops : pc[o] \notin {"idle", "mutationFn"}}

\* Sum of the createConversation calls of the two invocations.
CreateCalls == Len(created[1]) + Len(created[2])

\* C15: nothing deduplicates or suppresses invocations: N invocations that
\* pass the precondition, in sequence or overlapping, make N
\* createConversation calls, each invocation polls its own task, and two
\* successful invocations for the same conversation both call the deletion
\* of that conversation.
C15_NoOverlapGuard ==
    /\ ~PreconditionFails(conversation) =>
          /\ CreateCalls = Cardinality(Started)
          /\ \A o \in Started : Len(created[o]) = 1
    /\ \A o \in Ops : nFetch[o] > 0 => fetched[o] = {startTask[o]}
    /\ \A o \in Ops :
          status[o] = "success" =>
              deleted[o] = << conversation.conversation_id >>

\* C15 witness: two overlapping invocations polled different tasks and the
\* two deletions of "conv-123" are in flight together.
C15_Witness ==
    /\ pc[1] = "awaitDelete"
    /\ pc[2] = "awaitDelete"
    /\ startTask[1] # startTask[2]
    /\ nFetch[1] = 2
    /\ nFetch[2] = 3
    /\ deleted[1] = << "conv-123" >>
    /\ deleted[2] = << "conv-123" >>

\* C16: onLaunch is called only with a repository and a branch both
\* selected, and with that pair; handleLaunch with either one missing calls
\* neither onLaunch nor onClose and leaves the selection and the modal as
\* they are.
C16_LaunchNeedsBoth ==
    [][/\ launched' # launched =>
            /\ selectedRepository # null
            /\ selectedBranch # NoBranch
            /\ launched' =
                 Append(launched, <<selectedRepository, selectedBranch>>)
       /\ (/\ lastEvent' = "launch"
           /\ selectedRepository = null \/ selectedBranch = NoBranch) =>
            /\ launched' = launched
            /\ nOnClose' = nOnClose
            /\ isOpenRepoModalOpen' = isOpenRepoModalOpen
            /\ selectedRepository' = selectedRepository
            /\ selectedBranch' = selectedBranch]_vars

\* C16 witness: handleLaunch ran with a repository and no branch, and the
\* modal is still open on that repository.
C16_Witness ==
    /\ lastEvent = "launch"
    /\ isOpenRepoModalOpen
    /\ selectedRepository = "octo/lib"
    /\ selectedBranch = NoBranch
    /\ Len(launched) = 1

\* C17: every call of handleRepositoryChange, with another repository, the
\* same one or none, leaves no branch selected; a selected branch is always
\* one of the selected repository, and so is every launched pair.
C17_RepositoryChangeResetsBranch ==
    /\ lastEvent = "repositoryChange" => selectedBranch = NoBranch
    /\ selectedBranch # NoBranch =>
          selectedBranch.repository = selectedRepository
    /\ \A i \in 1..Len(launched) :
          /\ launched[i][1] # null
          /\ launched[i][2].repository = launched[i][1]

\* C17 witness: after a launch of octo/app at main, octo/lib is selected and
\* the branch is cleared.
C17_Witness ==
    /\ lastEvent = "repositoryChange"
    /\ selectedRepository = "octo/lib"
    /\ launched = << <<"octo/app",
                       [repository |-> "octo/app", name |-> "main"]>> >>

\* C18: handleClose and a successful handleLaunch clear both selections and
\* call onClose once; whenever the modal is closed nothing is selected, so
\* that it reopens with no selection.
C18_CloseResetsSelection ==
    /\ [](~isOpenRepoModalOpen =>
             (selectedRepository = null /\ selectedBranch = NoBranch))
    /\ [][/\ (isOpenRepoModalOpen /\ ~isOpenRepoModalOpen') =>
                /\ nOnClose' = nOnClose + 1
                /\ selectedRepository' = null
                /\ selectedBranch' = NoBranch
          /\ nOnClose' # nOnClose =>
                /\ nOnClose' = nOnClose + 1
                /\ isOpenRepoModalOpen
                /\ ~isOpenRepoModalOpen'
          /\ (~isOpenRepoModalOpen /\ isOpenRepoModalOpen') =>
                (selectedRepository' = null /\ selectedBranch' = NoBranch)]_vars

\* C18 witness: the modal was cancelled twice and has been opened again,
\* with nothing selected.
C18_Witness ==
    /\ lastEvent = "open"
    /\ nOnClose = 2
    /\ launched = <<>>
    /\ selectedRepository = null

\* C19: clearConversation posts to /api/v1/app-conversations/{id}/clear and
\* forkConversation to .../{id}/fork; the call fails with "Invalid response
\* from server: missing required fields" whenever the response's
\* new_conversation_id or parent_conversation_id is empty, and returns the
\* response only when both are non-empty.
C19_ServiceValidatesResponse ==
    /\ svcPc # "idle" =>
          svcPosted = << <<"/api/v1/app-conversations/", svcConversationId,
                           IF svcKind = "clear" THEN "/clear" ELSE "/fork">> >>
    /\ svcPc = "returned" =>
          /\ svcResult = svcData
          /\ svcData.new_conversation_id \notin {null, ""}
          /\ svcData.parent_conversation_id \notin {null, ""}
    /\ (/\ svcData # NoResponse
        /\ \/ svcData.new_conversation_id \in {null, ""}
           \/ svcData.parent_conversation_id \in {null, ""}) =>
          /\ svcPc = "threw"
          /\ svcResult = NoResponse
          /\ svcError = "Invalid response from server: missing required fields"

\* C19 witness: clearConversation threw on a response with an empty
\* parent_conversation_id.
C19_Witness ==
    /\ svcKind = "clear"
    /\ svcPc = "threw"
    /\ svcData.new_conversation_id = "def456"
    /\ svcData.parent_conversation_id = ""

\* C20: when every createConversation and getStartTask call is answered or
\* fails, a clear operation that was started resolves or rejects, after at
\* most maxAttempts sleeps, whatever the backend answers.
C20_ClearTerminates ==
    /\ [](\A o \in Ops : nSleep[o] <= maxAttempts /\ attempts[o] <= maxAttempts)
    /\ \A o \in Ops :
          (status[o] = "pending") ~> (Resolved(o) \/ Rejected(o))

\* C20 witness: the operation ended after maxAttempts sleeps on a backend
\* that never left WORKING.
C20_Witness ==
    \E o \in Ops :
        /\ pc[o] = "threw"
        /\ nSleep[o] = maxAttempts
        /\ task[o].status = "WORKING"
        /\ firstTerminalAt[o] = 0

\* ------------------------------------------ GitControlBar and its modal

\* C21: a clone message is in the log only for an update that has
\* succeeded (none for a pending or a failed one), it is the prompt of the
\* repository and branch of that launch, no launch has two, and with no
\* conversationId in the route no update is called and nothing is sent.
C21_CloneOnlyAfterUpdateSucceeded ==
    /\ \A k \in 1..Len(sent) :
          /\ sent[k].update \in 1..Len(updates)
          /\ updates[sent[k].update].state = "succeeded"
          /\ updates[sent[k].update].launch \in 1..Len(launched)
          /\ sent[k].content =
                ClonePrompt(launched[updates[sent[k].update].launch][1],
                            launched[updates[sent[k].update].launch][2].name)
    /\ \A j, k \in 1..Len(sent) : sent[j].update = sent[k].update => j = k
    /\ \A i, j \in 1..Len(updates) :
          updates[i].launch = updates[j].launch => i = j
    /\ ~Truthy(routeConversationId) => (updates = <<>> /\ sent = <<>>)

\* C21 witness: of two launches the first update succeeded and its clone
\* message was sent, the second failed and nothing was sent for it.
C21_Witness ==
    /\ Len(launched) = 2
    /\ Len(updates) = 2
    /\ updates[2].state = "failed"
    /\ updates[1].state = "succeeded"
    /\ sent = << [update |-> 1,
                  content |-> <<"Clone ", "octo/app",
                                " and checkout branch ", "main", ".">>] >>

\* C22: when the success callback of an update runs, a clone message is
\* sent only with the socket CONNECTED at that step, and with the socket
\* not connected the toast is shown and nothing is sent.
C22_SocketCheckedWhenCallbackRuns ==
    [][/\ sent' # sent => webSocketStatus = "CONNECTED"
       /\ \A i \in 1..Len(updates) :
             (/\ i = Len(updates)
              /\ updates[i].state = "pending"
              /\ Len(updates') = Len(updates)
              /\ updates'[i].state = "succeeded"
              /\ webSocketStatus # "CONNECTED") =>
                /\ sent' = sent
                /\ cloneToasts' = Append(cloneToasts, i)]_vars

\* C23: a selected branch comes with a selected repository: a branch is
\* selected only while a repository is, and every step that changes the
\* repository leaves no branch selected.
C23_BranchNeedsRepository ==
    /\ [](selectedBranch # NoBranch => selectedRepository # null)
    /\ [][/\ (selectedBranch' # selectedBranch /\ selectedBranch' # NoBranch)
               => (selectedRepository # null
                   /\ selectedRepository' = selectedRepository)
          /\ selectedRepository' # selectedRepository
               => selectedBranch' = NoBranch]_vars

\* C23 witness: in the open modal a repository and one of its branches
\* are selected, before any launch.
C23_Witness ==
    /\ isOpenRepoModalOpen
    /\ lastEvent = "branchSelect"
    /\ selectedRepository = "octo/app"
    /\ selectedBranch = [repository |-> "octo/app", name |-> "main"]
    /\ launched = <<>>

\* ------------------------------------------------------ the loading toast

\* The invocations whose mutation is pending.
InFlight == {o \in Ops : status[o] = "pending"}

\* C24 as stated: the loading toast is displayed exactly while a clear
\* operation is in flight.
C24_ToastWhileInFlight == loadingToast <=> InFlight # {}

\* C24: the loading toast is shown by every start of an operation and
\* dismissed by every completion, and changes at no other step; with no
\* operation in flight it is not displayed. (With two operations in flight
\* the first completion dismisses the toast they share.)
C24_ToastFollowsLastEvent ==
    /\ [](InFlight = {} => ~loadingToast)
    /\ [][/\ (\E o \in Ops : status[o] # "pending" /\ status'[o] = "pending")
               => loadingToast'
          /\ (\E o \in Ops : status[o] = "pending" /\ status'[o] # "pending")
               => ~loadingToast'
          /\ loadingToast' # loadingToast
               => \E o \in Ops : status'[o] # status[o]]_vars

\* C24 witness: the first operation has failed and dismissed the toast
\* while the second is still in flight.
C24_Witness ==
    /\ status[1] = "error"
    /\ status[2] = "pending"
    /\ ~loadingToast

\* ------------------------------------------------ ChangeRepositoryModal

\* The update requests that are pending.
PendingUpdates ==
    {i \in 1..Len(changeUpdates) : changeUpdates[i].state = "pending"}

\* C25: onClose is called only by the success of an update, by Cancel or by
\* the backdrop, never by the Submit or Remove handler itself; the failure
\* of an update, and a Submit or Remove with no conversationId in the
\* route, leave the modal, the onClose count and the selection as they
\* are (and the latter sends no update).
C25_ClosesOnlyAfterSuccess ==
    [][/\ nChangeOnClose' # nChangeOnClose =>
             /\ nChangeOnClose' = nChangeOnClose + 1
             /\ ~changeIsOpen'
             /\ \/ changeLastEvent' \in {"cancel", "backdrop"}
                \/ \E i \in PendingUpdates :
                      changeUpdates'[i].state = "succeeded"
       /\ (changeIsOpen /\ ~changeIsOpen') =>
             nChangeOnClose' = nChangeOnClose + 1
       /\ changeLastEvent' \in {"submit", "remove", "failure"} =>
             /\ changeIsOpen' = changeIsOpen
             /\ nChangeOnClose' = nChangeOnClose
             /\ changeSelected' = changeSelected
       /\ (/\ changeLastEvent' \in {"submit", "remove"}
           /\ ~Truthy(routeConversationId)) =>
             changeUpdates' = changeUpdates
       /\ (\E i \in PendingUpdates : changeUpdates'[i].state = "failed") =>
             changeLastEvent' = "failure"]_vars

\* C25 witness: the update sent by Submit has failed; the modal is still
\* open on the selection and onClose was never called.
C25_Witness ==
    /\ changeLastEvent = "failure"
    /\ changeIsOpen
    /\ nChangeOnClose = 0
    /\ changeSelected.full_name = "octo/app"
    /\ Len(changeUpdates) = 1
    /\ changeUpdates[1].by = "submit"
    /\ changeUpdates[1].state = "failed"

\* C26: at most one update request is pending at any time; an update is
\* sent, and the modal is cancelled, only while none is pending, Submit
\* sends only with a repository selected, and an update with a null
\* repository is one sent by Remove Repository.
C26_OneUpdateInFlight ==
    /\ [](Cardinality(PendingUpdates) <= 1)
    /\ [](\A i \in 1..Len(changeUpdates) :
             changeUpdates[i].variables.repository = null =>
                changeUpdates[i].by = "remove")
    /\ [][/\ changeLastEvent' \in {"submit", "remove", "cancel"} =>
                PendingUpdates = {}
          /\ changeLastEvent' = "submit" => changeSelected # NoSelectedRepo
          /\ Len(changeUpdates') > Len(changeUpdates) =>
                PendingUpdates = {}]_vars

\* C26 witness: after a failed Submit, Remove Repository has sent an update
\* with a null repository, which is pending, alone.
C26_Witness ==
    /\ Len(changeUpdates) = 2
    /\ changeUpdates[1].state = "failed"
    /\ changeUpdates[2].state = "pending"
    /\ changeUpdates[2].by = "remove"
    /\ changeUpdates[2].variables.repository = null
    /\ changeIsOpen

\* ------------------------------- useClearConversation, single-call variant

\* C27: navigate is called only in onSuccess with a non-empty
\* new_conversation_id, to /conversations/{new_conversation_id}, together
\* with the success toast; with an empty id onSuccess shows the no-new-id
\* error toast and nothing else; onError shows the clear-failed error toast
\* and nothing else.
C27_NavigatesOnlyWithNewId ==
    [][/\ singleNavigated' # singleNavigated =>
             /\ singleLastEvent' = "onSuccess"
             /\ Truthy(singleData'.new_conversation_id)
       /\ (singlePc = "pending" /\ singleLastEvent' = "onSuccess") =>
             IF singleData'.new_conversation_id \in {null, ""}
               THEN /\ singleErrorToast' =
                         Append(singleErrorToast,
                                <<"CONVERSATION$CLEAR_NO_NEW_ID">>)
                    /\ singleSuccessToast' = singleSuccessToast
                    /\ singleNavigated' = singleNavigated
               ELSE /\ singleNavigated' =
                         Append(singleNavigated,
                                <<"/conversations/",
                                  singleData'.new_conversation_id>>)
                    /\ singleSuccessToast' =
                         Append(singleSuccessToast, singleData'.message)
                    /\ singleErrorToast' = singleErrorToast
       /\ (singlePc = "pending" /\ singleLastEvent' = "onError") =>
             /\ Len(singleErrorToast') = Len(singleErrorToast) + 1
             /\ singleErrorToast'[Len(singleErrorToast')][1] =
                   "CONVERSATION$CLEAR_FAILED"
             /\ singleSuccessToast' = singleSuccessToast
             /\ singleNavigated' = singleNavigated]_vars

\* C27 witness: a first call resolved with an empty new_conversation_id and
\* showed the error toast, a second one resolved with def456 and
\* navigated there.
C27_Witness ==
    /\ singleLastEvent = "onSuccess"
    /\ singleData.new_conversation_id = "def456"
    /\ singleNavigated = << <<"/conversations/", "def456">> >>
    /\ singleErrorToast = << <<"CONVERSATION$CLEAR_NO_NEW_ID">> >>
    /\ Len(singleSuccessToast) = 1

====
